---- MODULE Spec2Model ----
(***************************************************************************)
(* Album-store-plus: the event-driven consistency layer.                   *)
(*                                                                         *)
(*  - the two ReviewRepository backends (DynamoDB, MySQL) and their        *)
(*    store round trips, run by concurrent callers (SpecRepo) and one      *)
(*    call after another on both backends side by side (SpecSeq);          *)
(*  - the SQS Consumer with its handler registry (SpecConsumer);           *)
(*  - the worker main with its MessageProcessors (SpecPool), and either    *)
(*    kind of worker around its cancellation signal (SpecWorkers);         *)
(*  - the command path AlbumService -> EventBus -> queue (SpecCmd).        *)
(*                                                                         *)
(* In the review store every album id of the model is the id of a row of    *)
(* the albums table, so the foreign key reviews.album_id -> albums.album_id *)
(* is always satisfied.                                                    *)
(* MySQL runs InnoDB at its default isolation level (REPEATABLE READ):     *)
(* BeginTx is called with nil options.                                     *)
(***************************************************************************)
EXTENDS Integers, Sequences, FiniteSets, TLC

\* ------------------------------------------------------------------ bounds
NumCallers == 3
MaxSeqLen == 5
MaxReceives == 4
MaxPasses == 1
NumWorkers == 2
MaxDeliveries == 2
MaxHandlers == 2
MaxOverlap == 2

Albums == {"A1", "A2"}
Callers == 1..NumCallers
Workers == 1..NumWorkers
Backends == {"dynamodb", "mysql"}
Requests == {"r1", "r2", "r3"}
RepoOps == {"AddLike", "AddDislike", "Delete"}

VARIABLES
    backend,    \* cfg.Features.UseDynamoDBForReviews: which repository is wired
    dynTable,   \* DynamoDB reviews table: album_id -> item (attribute -> number)
    sqlRows,    \* MySQL reviews table: committed rows
    call,       \* per caller: the ReviewRepository call in progress
    seqLen,     \* SpecSeq: number of calls made so far
    lastCall,   \* SpecSeq: the last call and what it returned on each backend
    queue,      \* SQS queue: message id -> body, attributes, receive count, state
    handlers,   \* Consumer.handlers: event type -> handlers in registration order
    ctxDone,    \* the context handed to Start has been cancelled
    consPc,     \* Consumer.Start: where its loop stands
    gor,        \* running processMessage goroutines
    mainPc,     \* worker main: where it stands
    mainI,      \* worker main: loop variable i of the loop it is in
    wg,         \* worker main: counter of the sync.WaitGroup
    wrapPc,     \* per worker: the goroutine main starts around Start
    stopChan,   \* per MessageProcessor: stopChan has been closed
    loopPc,     \* per MessageProcessor: the goroutine Start spawns
    batch,      \* per MessageProcessor: messages of the batch not yet handled
    reviewQueue, \* the SQS queue of review messages the processors poll
    deleteFailed, \* per review message: DeleteMessage calls that failed (logged)
    albumRows,  \* write store: ids of the rows of the albums table
    albumReviews, \* write store: rows of the album_reviews table
    rawDelivery, \* the queue's SNS subscription has raw message delivery on
    req,        \* per request: the command call in progress
    cmd,        \* per request: the command operation that was called
    events,     \* messages the command services handed to the SNS topic
    images      \* image store: album ids that have an image stored

repoVars == <<backend, dynTable, sqlRows, call>>
seqVars == <<seqLen, lastCall>>
consVars == <<queue, handlers, ctxDone, consPc, gor>>
poolVars == <<mainPc, mainI, wg, wrapPc, stopChan, loopPc, batch, reviewQueue,
              deleteFailed>>
cmdVars == <<albumRows, albumReviews, rawDelivery, req, cmd, events, images>>
nonRepoVars == <<seqVars, consVars, poolVars, cmdVars>>
nonConsVars == <<repoVars, seqVars, poolVars, cmdVars>>
vars == <<repoVars, seqVars, consVars, poolVars, cmdVars>>

\* --------------------------------------------------------- domain.Review
NilReview == [present |-> FALSE, likeCount |-> 0, dislikeCount |-> 0]

Review(l, d) == [present |-> TRUE, likeCount |-> l, dislikeCount |-> d]

CounterName(op) == IF op = "AddLike" THEN "like_count" ELSE "dislike_count"

\* ------------------------------------------- DynamoDB ReviewRepository
EmptyTable == [a \in {} |-> 0]

\* attributevalue.UnmarshalMap leaves the zero value for a missing attribute
DynAttr(item, name) == IF name \in DOMAIN item THEN item[name] ELSE 0

DynGetByAlbumID(tbl, albumID) ==
    IF albumID \in DOMAIN tbl
    THEN Review(DynAttr(tbl[albumID], "like_count"),
                DynAttr(tbl[albumID], "dislike_count"))
    ELSE NilReview

\* the review addCount builds when GetByAlbumID returned nil
DynNewReview(counterName) ==
    Review(IF counterName = "like_count" THEN 1 ELSE 0,
           IF counterName = "dislike_count" THEN 1 ELSE 0)

\* createReview: PutItem of all attributes, no condition expression
DyncreateReview(tbl, albumID, review) ==
    [a \in DOMAIN tbl \cup {albumID} |->
        IF a = albumID
        THEN [n \in {"like_count", "dislike_count"} |->
                 IF n = "like_count" THEN review.likeCount ELSE review.dislikeCount]
        ELSE tbl[a]]

\* mutant: the update expression "SET c = :incr", which adds nothing
DynUpdateItem_SetsOne(tbl, albumID, counterName) ==
    LET old == IF albumID \in DOMAIN tbl THEN tbl[albumID] ELSE [n \in {} |-> 0]
    IN  [a \in DOMAIN tbl \cup {albumID} |->
            IF a = albumID
            THEN [n \in DOMAIN old \cup {counterName} |->
                     IF n = counterName THEN 1 ELSE old[n]]
            ELSE tbl[a]]

\* UpdateItem "SET c = if_not_exists(c, :zero) + :incr": an upsert on the key
DynUpdateItem(tbl, albumID, counterName) ==
    LET old == IF albumID \in DOMAIN tbl THEN tbl[albumID] ELSE [n \in {} |-> 0]
    IN  [a \in DOMAIN tbl \cup {albumID} |->
            IF a = albumID
            THEN [n \in DOMAIN old \cup {counterName} |->
                     IF n = counterName THEN DynAttr(old, n) + 1 ELSE old[n]]
            ELSE tbl[a]]

\* mutant: DeleteItem without the condition expression
DynDelete_NoCondition(tbl, albumID) ==
    [err |-> "", tbl |-> [a \in DOMAIN tbl \ {albumID} |-> tbl[a]]]

\* DeleteItem with ConditionExpression attribute_exists(album_id)
DynDelete(tbl, albumID) ==
    IF albumID \in DOMAIN tbl
    THEN [err |-> "", tbl |-> [a \in DOMAIN tbl \ {albumID} |-> tbl[a]]]
    ELSE [err |-> "ConditionalCheckFailed", tbl |-> tbl]

\* addCount run with no other call in between
DynaddCount(tbl, albumID, counterName) ==
    IF ~DynGetByAlbumID(tbl, albumID).present
    THEN DyncreateReview(tbl, albumID, DynNewReview(counterName))
    ELSE DynUpdateItem(tbl, albumID, counterName)

\* ---------------------------------------------- MySQL ReviewRepository
SqlRowsOf(rows, albumID) == {r \in rows : r.album_id = albumID}

\* QueryRow scans the first row of the result
SqlFirstRow(rows, albumID) ==
    CHOOSE r \in SqlRowsOf(rows, albumID) :
        \A s \in SqlRowsOf(rows, albumID) : r.review_id <= s.review_id

SqlGetByAlbumID(rows, albumID) ==
    IF SqlRowsOf(rows, albumID) = {}
    THEN NilReview
    ELSE Review(SqlFirstRow(rows, albumID).like_count,
                SqlFirstRow(rows, albumID).dislike_count)

\* uuid.New(): an id no row of the table carries
SqlNewReviewID(rows) ==
    CHOOSE i \in 1..(Cardinality(rows) + 1) : \A r \in rows : r.review_id # i

\* mutant: the new row always seeds like_count, whatever the column asked for
SqlInsert_SeedsLike(rows, albumID, columnName) ==
    rows \cup {[review_id |-> SqlNewReviewID(rows),
                album_id |-> albumID,
                like_count |-> 1,
                dislike_count |-> 0]}

\* INSERT INTO reviews (...) VALUES (?, ?, likeCount, dislikeCount, now, now)
SqlInsert(rows, albumID, columnName) ==
    rows \cup {[review_id |-> SqlNewReviewID(rows),
                album_id |-> albumID,
                like_count |-> IF columnName = "like_count" THEN 1 ELSE 0,
                dislike_count |-> IF columnName = "dislike_count" THEN 1 ELSE 0]}

\* UPDATE reviews SET col = col + 1 WHERE review_id = ?
SqlUpdate(rows, reviewID, columnName) ==
    {IF r.review_id = reviewID
     THEN [r EXCEPT ![columnName] = @ + 1]
     ELSE r : r \in rows}

\* DELETE FROM reviews WHERE album_id = ?, then RowsAffected
SqlDelete(rows, albumID) ==
    IF SqlRowsOf(rows, albumID) = {}
    THEN [err |-> "review not found", rows |-> rows]
    ELSE [err |-> "", rows |-> rows \ SqlRowsOf(rows, albumID)]

\* addCount run with no other transaction in between
SqladdCount(rows, albumID, columnName) ==
    IF SqlRowsOf(rows, albumID) = {}
    THEN SqlInsert(rows, albumID, columnName)
    ELSE SqlUpdate(rows, SqlFirstRow(rows, albumID).review_id, columnName)

\* ------------------------------------------------ calls, step by step
IdleCall == [pc |-> "idle", op |-> "", album |-> "", rid |-> 0, result |-> ""]

NewCall(op, albumID) ==
    [pc |-> "called", op |-> op, album |-> albumID, rid |-> 0, result |-> ""]

DoneCall(c, res) == [c EXCEPT !.pc = "done", !.result = res]

\* InnoDB record locks taken by SELECT ... FOR UPDATE, INSERT and UPDATE
RowLockHolders(albumID) ==
    {q \in Callers : call[q].album = albumID
                     /\ call[q].pc \in {"sql_update", "sql_updated", "sql_inserted"}}

\* idx_reviews_album_id is a plain index ordered by album_id: two album ids
\* without row lie in the same gap of it when no row lies between them
SameGap(a, b) ==
    LET pos == [x \in Albums |-> CASE x = "A1" -> 1 [] x = "A2" -> 2]
    IN  \A r \in sqlRows :
            ~(\/ pos[a] < pos[r.album_id] /\ pos[r.album_id] < pos[b]
              \/ pos[b] < pos[r.album_id] /\ pos[r.album_id] < pos[a])

\* InnoDB gap locks taken by a locking read that found no row: the lock is
\* on the gap of idx_reviews_album_id the album id lies in, and gap locks
\* of different transactions on one gap do not conflict
GapLockHolders(albumID) ==
    {q \in Callers : /\ call[q].pc \in {"sql_insert", "sql_inserted"}
                     /\ SameGap(call[q].album, albumID)}

\* DynamoDB addCount, first round trip: GetByAlbumID
DynAddCountGet(p) ==
    /\ backend = "dynamodb"
    /\ call[p].pc = "called"
    /\ call[p].op \in {"AddLike", "AddDislike"}
    /\ call' = [call EXCEPT ![p].pc =
                  IF DynGetByAlbumID(dynTable, call[p].album).present
                  THEN "dyn_update" ELSE "dyn_put"]
    /\ UNCHANGED <<backend, dynTable, sqlRows>>
    /\ UNCHANGED nonRepoVars

\* DynamoDB addCount, review == nil: createReview
DynAddCountPut(p) ==
    /\ call[p].pc = "dyn_put"
    /\ dynTable' = DyncreateReview(dynTable, call[p].album,
                                   DynNewReview(CounterName(call[p].op)))
    /\ call' = [call EXCEPT ![p] = DoneCall(@, "ok")]
    /\ UNCHANGED <<backend, sqlRows>>
    /\ UNCHANGED nonRepoVars

\* DynamoDB addCount, review exists: UpdateItem
DynAddCountUpdate(p) ==
    /\ call[p].pc = "dyn_update"
    /\ dynTable' = DynUpdateItem(dynTable, call[p].album, CounterName(call[p].op))
    /\ call' = [call EXCEPT ![p] = DoneCall(@, "ok")]
    /\ UNCHANGED <<backend, sqlRows>>
    /\ UNCHANGED nonRepoVars

\* DynamoDB Delete: one conditional DeleteItem
DynDeleteCall(p) ==
    /\ backend = "dynamodb"
    /\ call[p].pc = "called"
    /\ call[p].op = "Delete"
    /\ dynTable' = DynDelete(dynTable, call[p].album).tbl
    /\ call' = [call EXCEPT ![p] =
                  DoneCall(@, IF DynDelete(dynTable, call[p].album).err = ""
                              THEN "ok" ELSE "error")]
    /\ UNCHANGED <<backend, sqlRows>>
    /\ UNCHANGED nonRepoVars

\* MySQL addCount: BeginTx and SELECT review_id ... FOR UPDATE (waits for
\* the record locks of other transactions)
SqlAddCountSelect(p) ==
    /\ backend = "mysql"
    /\ call[p].pc = "called"
    /\ call[p].op \in {"AddLike", "AddDislike"}
    /\ RowLockHolders(call[p].album) = {}
    /\ call' = [call EXCEPT ![p] =
                  IF SqlRowsOf(sqlRows, call[p].album) = {}
                  THEN [@ EXCEPT !.pc = "sql_insert"]
                  ELSE [@ EXCEPT !.pc = "sql_update",
                                 !.rid = SqlFirstRow(sqlRows, call[p].album).review_id]]
    /\ UNCHANGED <<backend, dynTable, sqlRows>>
    /\ UNCHANGED nonRepoVars

\* mutant: an INSERT that does not wait for the gap locks of others
SqlAddCountInsert_NoGapWait(p) ==
    /\ call[p].pc = "sql_insert"
    /\ call' = [call EXCEPT ![p].pc = "sql_inserted"]
    /\ UNCHANGED <<backend, dynTable, sqlRows>>
    /\ UNCHANGED nonRepoVars

\* MySQL addCount, sql.ErrNoRows: INSERT (waits for the gap locks of others)
SqlAddCountInsert(p) ==
    /\ call[p].pc = "sql_insert"
    /\ GapLockHolders(call[p].album) \ {p} = {}
    /\ call' = [call EXCEPT ![p].pc = "sql_inserted"]
    /\ UNCHANGED <<backend, dynTable, sqlRows>>
    /\ UNCHANGED nonRepoVars

\* MySQL addCount, row found: UPDATE by review_id
SqlAddCountUpdate(p) ==
    /\ call[p].pc = "sql_update"
    /\ call' = [call EXCEPT ![p].pc = "sql_updated"]
    /\ UNCHANGED <<backend, dynTable, sqlRows>>
    /\ UNCHANGED nonRepoVars

\* MySQL addCount: tx.Commit makes the transaction's write visible
SqlCommit(p) ==
    /\ call[p].pc \in {"sql_inserted", "sql_updated"}
    /\ sqlRows' = IF call[p].pc = "sql_inserted"
                  THEN SqlInsert(sqlRows, call[p].album, CounterName(call[p].op))
                  ELSE SqlUpdate(sqlRows, call[p].rid, CounterName(call[p].op))
    /\ call' = [call EXCEPT ![p] = DoneCall(@, "ok")]
    /\ UNCHANGED <<backend, dynTable>>
    /\ UNCHANGED nonRepoVars

\* InnoDB deadlock detection: two inserters hold the gap lock the other's
\* INSERT waits for; the victim's statement fails and its tx is rolled back
SqlDeadlock(p) ==
    /\ call[p].pc = "sql_insert"
    /\ \E q \in GapLockHolders(call[p].album) \ {p} : call[q].pc = "sql_insert"
    /\ call' = [call EXCEPT ![p] = DoneCall(@, "error")]
    /\ UNCHANGED <<backend, dynTable, sqlRows>>
    /\ UNCHANGED nonRepoVars

\* MySQL Delete: one autocommit DELETE (waits for record locks of others)
SqlDeleteCall(p) ==
    /\ backend = "mysql"
    /\ call[p].pc = "called"
    /\ call[p].op = "Delete"
    /\ RowLockHolders(call[p].album) = {}
    /\ sqlRows' = SqlDelete(sqlRows, call[p].album).rows
    /\ call' = [call EXCEPT ![p] =
                  DoneCall(@, IF SqlDelete(sqlRows, call[p].album).err = ""
                              THEN "ok" ELSE "error")]
    /\ UNCHANGED <<backend, dynTable>>
    /\ UNCHANGED nonRepoVars

\* a store round trip returns err != nil: the call returns it (the deferred
\* tx.Rollback drops the transaction's write and locks)
RepoRoundTripFails(p) ==
    /\ call[p].pc \in {"called", "dyn_put", "dyn_update", "sql_insert",
                       "sql_update", "sql_inserted", "sql_updated"}
    /\ call' = [call EXCEPT ![p] = DoneCall(@, "error")]
    /\ UNCHANGED <<backend, dynTable, sqlRows>>
    /\ UNCHANGED nonRepoVars

\* the round trips of the repository call of caller p
RepoStep(p) ==
    \/ DynAddCountGet(p)
    \/ DynAddCountPut(p)
    \/ DynAddCountUpdate(p)
    \/ DynDeleteCall(p)
    \/ SqlAddCountSelect(p)
    \/ SqlAddCountInsert(p)
    \/ SqlAddCountUpdate(p)
    \/ SqlCommit(p)
    \/ SqlDeadlock(p)
    \/ SqlDeleteCall(p)
    \/ RepoRoundTripFails(p)

\* the read model as GetByAlbumID of the wired backend reports it
GetByAlbumID(albumID) ==
    IF backend = "mysql"
    THEN SqlGetByAlbumID(sqlRows, albumID)
    ELSE DynGetByAlbumID(dynTable, albumID)

\* ------------------------------------------------------- the SQS queue
Msgs == {"m1", "m2", "m3"}

\* command.EventType
EventTypes == {"ALBUM_CREATED", "ALBUM_LIKED", "ALBUM_DISLIKED", "IMAGE_UPLOADED"}

\* a message body: the JSON of a DomainEvent (or bytes that are no JSON);
\* payload is the shape of the "payload" member, "scalar" for a JSON value
\* that is no object
EventBody(type, payload, flag) ==
    [wellFormed |-> TRUE, type |-> type, payload |-> payload,
     requiresProcessing |-> flag]

MalformedBody ==
    [wellFormed |-> FALSE, type |-> "", payload |-> "scalar",
     requiresProcessing |-> FALSE]

\* a message as the broker stores it; attrType is the EventType message
\* attribute, "" when the message carries none
QueueMsg(body, attrType) ==
    [body |-> body, attrType |-> attrType, state |-> "visible", recv |-> 0]

NoMsg == [body |-> MalformedBody, attrType |-> "", state |-> "absent", recv |-> 0]

\* an AlbumLiked event as Publisher.Publish sends it
LikedMsg == QueueMsg(EventBody("ALBUM_LIKED", "review", FALSE), "ALBUM_LIKED")

\* an AlbumLiked event whose payload member is no JSON object: the handler
\* fails on it at every delivery
BadPayloadMsg == QueueMsg(EventBody("ALBUM_LIKED", "scalar", FALSE), "ALBUM_LIKED")

\* the messages the Consumer is run against
QueueInputs ==
    { LikedMsg,
      BadPayloadMsg,
      QueueMsg(EventBody("ALBUM_LIKED", "review", FALSE), ""),
      QueueMsg(EventBody("ALBUM_CREATED", "created", FALSE), "ALBUM_LIKED"),
      QueueMsg(EventBody("ALBUM_ARCHIVED", "review", FALSE), "ALBUM_ARCHIVED"),
      QueueMsg(EventBody("IMAGE_UPLOADED", "image", TRUE), "IMAGE_UPLOADED"),
      QueueMsg(EventBody("IMAGE_UPLOADED", "image", FALSE), "IMAGE_UPLOADED"),
      QueueMsg(MalformedBody, "ALBUM_LIKED") }

\* ReceiveMessageInput.AttributeNames of Consumer.Start: the input sets
\* MessageAttributeNames only, so no system attribute is asked for
ReceiveAttributeNames == {}

\* Message.Attributes of a delivery: the system attributes asked for
DeliveredAttributes(names, receiveCount) ==
    [n \in names \cap {"ApproximateReceiveCount"} |-> receiveCount]

\* messages a receive call can return
Receivable == {m \in Msgs : queue[m].state = "visible" /\ queue[m].recv < MaxReceives}

\* ReceiveMessage with long polling: some of the visible messages, at least
\* one when there is one (MaxNumberOfMessages is 10, above the queue size)
ReceiveBatches ==
    IF Receivable = {} THEN {{}} ELSE SUBSET Receivable \ {{}}

\* the queue after batch S was handed out: invisible, receive count raised
QueueAfterReceive(S) ==
    [m \in Msgs |-> IF m \in S
                    THEN [queue[m] EXCEPT !.state = "inflight", !.recv = @ + 1]
                    ELSE queue[m]]

\* DeleteMessage by receipt handle
QueueAfterDelete(m) ==
    [queue EXCEPT ![m].state = IF @ = "absent" THEN "absent" ELSE "deleted"]

\* the goroutines processing deliveries of message m
PassesOf(m) == {g \in gor : g.msg = m}

\* the visibility timeout of an undeleted delivery runs out (while fewer than
\* MaxPasses goroutines still work on the message)
VisibilityTimeout(m) ==
    /\ queue[m].state = "inflight"
    /\ Cardinality(PassesOf(m)) < MaxPasses
    /\ queue' = [queue EXCEPT ![m].state = "visible"]
    /\ UNCHANGED <<handlers, ctxDone, consPc, gor>>
    /\ UNCHANGED nonConsVars

\* the visibility timeout of an in-flight message expires while a pass for
\* it is still running (a handler slower than the timeout): the queue makes
\* the message visible again whatever the consumer is doing with it
VisibilityTimeoutDuringPass(m) ==
    /\ queue[m].state = "inflight"
    /\ Cardinality(PassesOf(m)) >= 1
    /\ Cardinality(PassesOf(m)) < MaxOverlap
    /\ queue' = [queue EXCEPT ![m].state = "visible"]
    /\ UNCHANGED <<handlers, ctxDone, consPc, gor>>
    /\ UNCHANGED nonConsVars

\* ------------------------------------------------- sqs.Consumer
\* NewConsumer
maxRetries == 3

\* RegisterHandler: append to the list of the event type
RegisterHandler(h, eventType, handler) ==
    [t \in DOMAIN h \cup {eventType} |->
        IF t = eventType
        THEN Append(IF eventType \in DOMAIN h THEN h[eventType] ELSE <<>>, handler)
        ELSE h[t]]

\* EventHandlerFactory.RegisterHandlers
RegisterHandlers(h) ==
    RegisterHandler(
      RegisterHandler(
        RegisterHandler(
          RegisterHandler(h, "ALBUM_CREATED", "HandleAlbumCreated"),
          "ALBUM_LIKED", "HandleAlbumLiked"),
        "ALBUM_DISLIKED", "HandleAlbumDisliked"),
      "IMAGE_UPLOADED", "HandleImageUploaded")

\* the event type processMessage dispatches on: the EventType message
\* attribute when present, else the type member of the body
DispatchType(msg) == IF msg.attrType # "" THEN msg.attrType ELSE msg.body.type

\* c.handlers[event.Type]
HandlersFor(eventType) ==
    IF eventType \in DOMAIN handlers THEN handlers[eventType] ELSE <<>>

\* parseEventPayload: the payload must have been decoded into a map; members
\* the destination type does not know are skipped, missing ones stay zero
parseEventPayload(body) == IF body.payload # "scalar" THEN "ok" ELSE "error"

\* ImageUploadedEvent.RequiresProcessing after parseEventPayload
RequiresProcessing(body) == body.payload = "image" /\ body.requiresProcessing

\* what a handler can return
HandlerOutcomes(handler, body) ==
    IF parseEventPayload(body) = "error" THEN {"error"}
    ELSE IF handler = "HandleImageUploaded" /\ RequiresProcessing(body)
         THEN (IF ctxDone THEN {"error"} ELSE {"ok", "error"})
         ELSE {"ok"}

\* getApproximateReceiveCount
getApproximateReceiveCount(attrs) ==
    IF "ApproximateReceiveCount" \in DOMAIN attrs
    THEN attrs["ApproximateReceiveCount"]
    ELSE 0

\* the delete condition at the end of processMessage
ShouldDelete(errs, attrs) ==
    errs = 0 \/ getApproximateReceiveCount(attrs) > maxRetries

\* processMessage up to its first call: unmarshal the body, pick the event
\* type, look up the handlers; "delete" when the body is no JSON or no
\* handler is registered, else "handler"
DispatchPc(msg) ==
    IF ~msg.body.wellFormed \/ Len(HandlersFor(DispatchType(msg))) = 0
    THEN "delete"
    ELSE "handler"

\* a processMessage goroutine for one delivery of message m; receipt is the
\* number of the delivery (its receipt handle), i the handler being run,
\* ran the handlers that have returned
Goroutine(m) ==
    [msg |-> m, receipt |-> queue[m].recv + 1,
     attrs |-> DeliveredAttributes(ReceiveAttributeNames, queue[m].recv + 1),
     pc |-> DispatchPc(queue[m]),
     i |-> IF DispatchPc(queue[m]) = "handler" THEN 1 ELSE 0,
     errs |-> 0, ran |-> <<>>]

\* the (event type, handler) pairs a caller registers
Registrations ==
    { <<"IMAGE_UPLOADED", "HandleImageUploaded">>,
      <<"IMAGE_UPLOADED", "HandleAlbumCreated">>,
      <<"ALBUM_LIKED", "HandleAlbumLiked">> }

\* the number of handlers registered
RECURSIVE NumHandlers(_, _)
NumHandlers(h, T) ==
    IF T = {} THEN 0
    ELSE LET t == CHOOSE x \in T : TRUE
         IN  Len(h[t]) + NumHandlers(h, T \ {t})

\* a caller registers a handler on the Consumer NewConsumer returned, before
\* Start runs
ConsumerRegisterHandler(eventType, handler) ==
    /\ consPc = "new"
    /\ NumHandlers(handlers, DOMAIN handlers) < MaxHandlers
    /\ handlers' = RegisterHandler(handlers, eventType, handler)
    /\ UNCHANGED <<queue, ctxDone, consPc, gor>>
    /\ UNCHANGED nonConsVars

\* the caller calls Start
ConsumerStart ==
    /\ consPc = "new"
    /\ consPc' = "select"
    /\ UNCHANGED <<queue, handlers, ctxDone, gor>>
    /\ UNCHANGED nonConsVars

\* Start: the select at the top of the loop
ConsumerSelect ==
    /\ consPc = "select"
    /\ consPc' = IF ctxDone THEN "stopped" ELSE "receive"
    /\ UNCHANGED <<queue, handlers, ctxDone, gor>>
    /\ UNCHANGED nonConsVars

\* Start: ReceiveMessageWithContext returns a batch, one goroutine per message
ConsumerReceive(S) ==
    /\ consPc = "receive"
    /\ ~ctxDone
    /\ S \in ReceiveBatches
    /\ queue' = QueueAfterReceive(S)
    /\ gor' = gor \cup {Goroutine(m) : m \in S}
    /\ consPc' = "select"
    /\ UNCHANGED <<handlers, ctxDone>>
    /\ UNCHANGED nonConsVars

\* mutant: a Start that returns the error of the receive call
ConsumerReceiveFails_Returns ==
    /\ consPc = "receive"
    /\ consPc' = "stopped"
    /\ UNCHANGED <<queue, handlers, ctxDone, gor>>
    /\ UNCHANGED nonConsVars

\* Start: ReceiveMessageWithContext returns an error (always so once the
\* context is cancelled)
ConsumerReceiveFails ==
    /\ consPc = "receive"
    /\ consPc' = "backoff"
    /\ UNCHANGED <<queue, handlers, ctxDone, gor>>
    /\ UNCHANGED nonConsVars

\* Start: time.Sleep(5 * time.Second) is over
ConsumerBackoff ==
    /\ consPc = "backoff"
    /\ consPc' = "select"
    /\ UNCHANGED <<queue, handlers, ctxDone, gor>>
    /\ UNCHANGED nonConsVars

\* the owner of the context cancels it
ConsumerCancel ==
    /\ ~ctxDone
    /\ consPc # "idle"
    /\ ctxDone' = TRUE
    /\ UNCHANGED <<queue, handlers, consPc, gor>>
    /\ UNCHANGED nonConsVars

\* mutant: a loop over the handlers that breaks at the first error
ProcessMessageHandlerReturns_StopsAtError(g, outcome) ==
    /\ g \in gor
    /\ g.pc \in {"handler", "invoke", "invoked"}
    /\ outcome \in HandlerOutcomes(HandlersFor(DispatchType(queue[g.msg]))[g.i],
                                   queue[g.msg].body)
    /\ g.pc = "invoke" => outcome = "error"
    /\ LET hs == HandlersFor(DispatchType(queue[g.msg]))
           h == [g EXCEPT !.errs = IF outcome = "error" THEN @ + 1 ELSE @,
                          !.ran = Append(@, hs[g.i])]
       IN  IF g.i < Len(hs) /\ outcome = "ok"
           THEN gor' = (gor \ {g}) \cup {[h EXCEPT !.i = @ + 1, !.pc = "handler"]}
           ELSE gor' = (gor \ {g}) \cup {[h EXCEPT !.pc = "decide"]}
    /\ UNCHANGED <<queue, handlers, ctxDone, consPc>>
    /\ UNCHANGED nonConsVars

\* processMessage: the running handler returns; its error is appended to
\* handlerErrors and the next handler is called. A handler call is one step
\* from "handler"; the call of HandleImageUploaded that invokes the function
\* is also taken in its parts (HandleImageUploadedInvoke, InvokeCompletes),
\* and then it returns nil only once the invocation has completed, and an
\* error when the invocation call fails
ProcessMessageHandlerReturns(g, outcome) ==
    /\ g \in gor
    /\ g.pc \in {"handler", "invoke", "invoked"}
    /\ outcome \in HandlerOutcomes(HandlersFor(DispatchType(queue[g.msg]))[g.i],
                                   queue[g.msg].body)
    /\ g.pc = "invoke" => outcome = "error"
    /\ LET hs == HandlersFor(DispatchType(queue[g.msg]))
           h == [g EXCEPT !.errs = IF outcome = "error" THEN @ + 1 ELSE @,
                          !.ran = Append(@, hs[g.i])]
       IN  IF g.i < Len(hs)
           THEN gor' = (gor \ {g}) \cup {[h EXCEPT !.i = @ + 1, !.pc = "handler"]}
           ELSE gor' = (gor \ {g}) \cup {[h EXCEPT !.pc = "decide"]}
    /\ UNCHANGED <<queue, handlers, ctxDone, consPc>>
    /\ UNCHANGED nonConsVars

\* HandleImageUploaded, payload parsed and RequiresProcessing set:
\* lambdaClient.InvokeWithContext with FunctionName and Payload only. No
\* InvocationType is given, so the invocation is RequestResponse: the call
\* returns when the function has run to its end
HandleImageUploadedInvoke(g) ==
    /\ g \in gor
    /\ g.pc = "handler"
    /\ HandlersFor(DispatchType(queue[g.msg]))[g.i] = "HandleImageUploaded"
    /\ parseEventPayload(queue[g.msg].body) = "ok"
    /\ RequiresProcessing(queue[g.msg].body)
    /\ gor' = (gor \ {g}) \cup {[g EXCEPT !.pc = "invoke"]}
    /\ UNCHANGED <<queue, handlers, ctxDone, consPc>>
    /\ UNCHANGED nonConsVars

\* the invoked function finishes processing the image; the response of the
\* invocation is on its way to the handler blocked in InvokeWithContext
InvokeCompletes(g) ==
    /\ g \in gor
    /\ g.pc = "invoke"
    /\ gor' = (gor \ {g}) \cup {[g EXCEPT !.pc = "invoked"]}
    /\ UNCHANGED <<queue, handlers, ctxDone, consPc>>
    /\ UNCHANGED nonConsVars

\* processMessage: after the last handler, delete the message if all handlers
\* succeeded or the receive count is above maxRetries; else just return
ProcessMessageDecide(g) ==
    /\ g \in gor
    /\ g.pc = "decide"
    /\ gor' = IF ShouldDelete(g.errs, g.attrs)
              THEN (gor \ {g}) \cup {[g EXCEPT !.pc = "delete"]}
              ELSE gor \ {g}
    /\ UNCHANGED <<queue, handlers, ctxDone, consPc>>
    /\ UNCHANGED nonConsVars

\* deleteMessage: DeleteMessageWithContext; an error is only logged
ProcessMessageDelete(g, outcome) ==
    /\ g \in gor
    /\ g.pc = "delete"
    /\ outcome \in (IF ctxDone THEN {"error"} ELSE {"ok", "error"})
    /\ queue' = IF outcome = "ok" THEN QueueAfterDelete(g.msg) ELSE queue
    /\ gor' = gor \ {g}
    /\ UNCHANGED <<handlers, ctxDone, consPc>>
    /\ UNCHANGED nonConsVars

\* ------------------------------------------- review.MessageProcessor
\* ReviewMessageType
ReviewMessageTypes == {"add_like", "add_dislike", "delete"}

\* a message of the review queue: an SNS envelope whose Message member is the
\* JSON of a ReviewMessage; wellFormed is FALSE when one of the two JSON
\* layers does not parse
ReviewQueueMsg(wellFormed, type, albumID) ==
    [wellFormed |-> wellFormed, type |-> type, album |-> albumID,
     state |-> "visible", recv |-> 0]

NoReviewMsg ==
    [wellFormed |-> FALSE, type |-> "", album |-> "", state |-> "absent", recv |-> 0]

AddLikeMsg == ReviewQueueMsg(TRUE, "add_like", "A1")

\* the messages the processors are run against; the fourth is a DomainEvent
\* read as a ReviewMessage (a type handleMessage does not know)
ReviewInputs ==
    { AddLikeMsg,
      ReviewQueueMsg(TRUE, "add_dislike", "A1"),
      ReviewQueueMsg(TRUE, "delete", "A1"),
      ReviewQueueMsg(TRUE, "ALBUM_LIKED", ""),
      ReviewQueueMsg(FALSE, "", "") }

\* the repository method handleMessage calls for a message type
RepoOpOf(type) ==
    CASE type = "add_like" -> "AddLike"
      [] type = "add_dislike" -> "AddDislike"
      [] type = "delete" -> "Delete"

\* messages a receive call of a processor can return
ReviewReceivable == {m \in Msgs : reviewQueue[m].state = "visible"}

RECURSIVE SumRecv(_)
\* the deliveries made so far, of the messages in S
SumRecv(S) ==
    IF S = {} THEN 0
    ELSE LET m == CHOOSE x \in S : TRUE
         IN  reviewQueue[m].recv + SumRecv(S \ {m})

\* the orders in which a set of messages can come back
BatchSeqs(S) ==
    {b \in [1..Cardinality(S) -> S] : \A i, j \in DOMAIN b : b[i] = b[j] => i = j}

\* every batch a receive call can ever return
AllBatches == UNION {BatchSeqs(S) : S \in SUBSET Msgs}

\* ReceiveMessage with WaitTimeSeconds 5: an empty result when no message is
\* visible, else some of the visible messages
ReviewBatches ==
    IF ReviewReceivable = {} THEN {<<>>}
    ELSE UNION {BatchSeqs(S) : S \in SUBSET ReviewReceivable \ {{}}}

\* the range of a batch
BatchMsgs(b) == {b[i] : i \in DOMAIN b}

\* mutant: a handleMessage that returns an error for an unknown type
HandlePc_UnknownTypeFails(b) ==
    IF b = <<>> THEN "select"
    ELSE IF ~reviewQueue[Head(b)].wellFormed THEN "skip"
    ELSE IF reviewQueue[Head(b)].type \notin ReviewMessageTypes THEN "skip"
    ELSE "repo"

\* mutant: a handleMessage that remembers the messages it has handled
HandlePc_Deduplicates(b) ==
    IF b = <<>> THEN "select"
    ELSE IF ~reviewQueue[Head(b)].wellFormed THEN "skip"
    ELSE IF reviewQueue[Head(b)].type \notin ReviewMessageTypes THEN "delete"
    ELSE IF deleteFailed[Head(b)] > 0 THEN "delete"
    ELSE "repo"

\* handleMessage up to its repository call, for the first message of batch
\* b: "skip" when the body does not parse (an error: the message is left on
\* the queue), "delete" when the type is unknown (handleMessage returns
\* nil), else "repo"; "select" when the batch is over and processMessages
\* returns nil to the loop of Start
HandlePc(b) ==
    IF b = <<>> THEN "select"
    ELSE IF ~reviewQueue[Head(b)].wellFormed THEN "skip"
    ELSE IF reviewQueue[Head(b)].type \notin ReviewMessageTypes THEN "delete"
    ELSE "repo"

\* the repository call handleMessage makes for the first message of batch b
HandleCall(b) ==
    IF HandlePc(b) = "repo"
    THEN NewCall(RepoOpOf(reviewQueue[Head(b)].type), reviewQueue[Head(b)].album)
    ELSE IdleCall

\* processMessages: the loop over the batch enters handleMessage for the
\* first message of b
EnterBatch(w, b) ==
    /\ batch' = [batch EXCEPT ![w] = b]
    /\ loopPc' = [loopPc EXCEPT ![w] = HandlePc(b)]
    /\ call' = [call EXCEPT ![w] = HandleCall(b)]

\* mutant: a select that never takes the stopChan case
LoopSelect_IgnoresStop(w) ==
    /\ loopPc[w] = "select"
    /\ loopPc' = [loopPc EXCEPT ![w] = "receive"]
    /\ UNCHANGED <<mainPc, mainI, wg, wrapPc, stopChan, batch, reviewQueue, deleteFailed>>
    /\ UNCHANGED <<repoVars, seqVars, consVars, cmdVars>>

\* Start (goroutine): the select at the top of the loop; ctx is not
\* cancelled before main returns
LoopSelect(w) ==
    /\ loopPc[w] = "select"
    /\ loopPc' = [loopPc EXCEPT ![w] = IF stopChan[w] THEN "exited" ELSE "receive"]
    /\ UNCHANGED <<mainPc, mainI, wg, wrapPc, stopChan, batch, reviewQueue, deleteFailed>>
    /\ UNCHANGED <<repoVars, seqVars, consVars, cmdVars>>

\* processMessages: ReceiveMessage returns batch b
LoopReceive(w, b) ==
    /\ loopPc[w] = "receive"
    /\ b \in ReviewBatches
    /\ SumRecv(Msgs) + Len(b) <= MaxDeliveries
    /\ reviewQueue' =
          [m \in Msgs |-> IF m \in BatchMsgs(b)
                          THEN [reviewQueue[m] EXCEPT !.state = "inflight",
                                                      !.recv = @ + 1]
                          ELSE reviewQueue[m]]
    /\ EnterBatch(w, b)
    /\ UNCHANGED <<mainPc, mainI, wg, wrapPc, stopChan, deleteFailed>>
    /\ UNCHANGED <<backend, dynTable, sqlRows>>
    /\ UNCHANGED <<seqVars, consVars, cmdVars>>

\* processMessages: ReceiveMessage returns an error, which Start logs
LoopReceiveFails(w) ==
    /\ loopPc[w] = "receive"
    /\ loopPc' = [loopPc EXCEPT ![w] = "sleep"]
    /\ UNCHANGED <<mainPc, mainI, wg, wrapPc, stopChan, batch, reviewQueue, deleteFailed>>
    /\ UNCHANGED <<repoVars, seqVars, consVars, cmdVars>>

\* mutant: a retry that calls processMessages again right after the sleep
LoopSleep_RetriesAtOnce(w) ==
    /\ loopPc[w] = "sleep"
    /\ loopPc' = [loopPc EXCEPT ![w] = "receive"]
    /\ UNCHANGED <<mainPc, mainI, wg, wrapPc, stopChan, batch, reviewQueue, deleteFailed>>
    /\ UNCHANGED <<repoVars, seqVars, consVars, cmdVars>>

\* Start (goroutine): time.Sleep(1 * time.Second) is over
LoopSleep(w) ==
    /\ loopPc[w] = "sleep"
    /\ loopPc' = [loopPc EXCEPT ![w] = "select"]
    /\ UNCHANGED <<mainPc, mainI, wg, wrapPc, stopChan, batch, reviewQueue, deleteFailed>>
    /\ UNCHANGED <<repoVars, seqVars, consVars, cmdVars>>

\* handleMessage returned an error for a body that does not parse:
\* processMessages logs it and goes on with the next message
LoopSkipMessage(w) ==
    /\ loopPc[w] = "skip"
    /\ EnterBatch(w, Tail(batch[w]))
    /\ UNCHANGED <<mainPc, mainI, wg, wrapPc, stopChan, reviewQueue, deleteFailed>>
    /\ UNCHANGED <<backend, dynTable, sqlRows>>
    /\ UNCHANGED <<seqVars, consVars, cmdVars>>

\* handleMessage: the repository call has returned an error, so
\* processMessages goes on with the next message
LoopRepoFails(w) ==
    /\ loopPc[w] = "repo"
    /\ call[w].pc = "done"
    /\ call[w].result # "ok"
    /\ EnterBatch(w, Tail(batch[w]))
    /\ UNCHANGED <<mainPc, mainI, wg, wrapPc, stopChan, reviewQueue, deleteFailed>>
    /\ UNCHANGED <<backend, dynTable, sqlRows>>
    /\ UNCHANGED <<seqVars, consVars, cmdVars>>

\* handleMessage: the repository call has returned nil
LoopRepoReturns(w) ==
    /\ loopPc[w] = "repo"
    /\ call[w].pc = "done"
    /\ call[w].result = "ok"
    /\ call' = [call EXCEPT ![w] = IdleCall]
    /\ loopPc' = [loopPc EXCEPT ![w] = "delete"]
    /\ UNCHANGED <<mainPc, mainI, wg, wrapPc, stopChan, batch, reviewQueue, deleteFailed>>
    /\ UNCHANGED <<backend, dynTable, sqlRows>>
    /\ UNCHANGED <<seqVars, consVars, cmdVars>>

\* processMessages: DeleteMessage of the handled message (an error is only
\* logged), then on with the next message
LoopDeleteMessage(w, outcome) ==
    /\ loopPc[w] = "delete"
    /\ reviewQueue' = IF outcome = "ok"
                      THEN [reviewQueue EXCEPT ![Head(batch[w])].state = "deleted"]
                      ELSE reviewQueue
    /\ deleteFailed' = IF outcome = "ok" THEN deleteFailed
                       ELSE [deleteFailed EXCEPT ![Head(batch[w])] = @ + 1]
    /\ EnterBatch(w, Tail(batch[w]))
    /\ UNCHANGED <<mainPc, mainI, wg, wrapPc, stopChan>>
    /\ UNCHANGED <<backend, dynTable, sqlRows>>
    /\ UNCHANGED <<seqVars, consVars, cmdVars>>

\* the visibility timeout of a received, undeleted review message runs out;
\* it is taken to outlast the handling of the batch the message came in
ReviewVisibilityTimeout(m) ==
    /\ mainPc # "returned"
    /\ reviewQueue[m].state = "inflight"
    /\ \A w \in Workers : m \notin BatchMsgs(batch[w])
    /\ reviewQueue' = [reviewQueue EXCEPT ![m].state = "visible"]
    /\ UNCHANGED <<mainPc, mainI, wg, wrapPc, stopChan, loopPc, batch,
                   deleteFailed>>
    /\ UNCHANGED <<repoVars, seqVars, consVars, cmdVars>>

\* ------------------------------------------------- worker main
\* main: NewMessageProcessor, wg.Add(1) and the go statement for worker i
MainSpawn ==
    /\ mainPc = "spawn"
    /\ wg' = wg + 1
    /\ wrapPc' = [wrapPc EXCEPT ![mainI + 1] = "ready"]
    /\ mainI' = IF mainI + 1 = NumWorkers THEN 0 ELSE mainI + 1
    /\ mainPc' = IF mainI + 1 = NumWorkers THEN "quit" ELSE "spawn"
    /\ UNCHANGED <<stopChan, loopPc, batch, reviewQueue, deleteFailed>>
    /\ UNCHANGED <<repoVars, seqVars, consVars, cmdVars>>

\* the goroutine of main's go statement: processors[idx].Start(ctx), which
\* spawns the polling goroutine and returns, then the deferred wg.Done()
WrapperRuns(w) ==
    /\ wrapPc[w] = "ready"
    /\ mainPc # "returned"
    /\ wrapPc' = [wrapPc EXCEPT ![w] = "done"]
    /\ loopPc' = [loopPc EXCEPT ![w] = "select"]
    /\ wg' = wg - 1
    /\ UNCHANGED <<mainPc, mainI, stopChan, batch, reviewQueue, deleteFailed>>
    /\ UNCHANGED <<repoVars, seqVars, consVars, cmdVars>>

\* main: SIGINT or SIGTERM arrives on quit
MainSignal ==
    /\ mainPc = "quit"
    /\ mainPc' = "stop"
    /\ UNCHANGED <<mainI, wg, wrapPc, stopChan, loopPc, batch, reviewQueue, deleteFailed>>
    /\ UNCHANGED <<repoVars, seqVars, consVars, cmdVars>>

\* main: processors[i].Stop() closes stopChan
MainStop ==
    /\ mainPc = "stop"
    /\ stopChan' = [stopChan EXCEPT ![mainI + 1] = TRUE]
    /\ mainI' = IF mainI + 1 = NumWorkers THEN 0 ELSE mainI + 1
    /\ mainPc' = IF mainI + 1 = NumWorkers THEN "wait" ELSE "stop"
    /\ UNCHANGED <<wg, wrapPc, loopPc, batch, reviewQueue, deleteFailed>>
    /\ UNCHANGED <<repoVars, seqVars, consVars, cmdVars>>

\* main: wg.Wait() returns and "All workers shutdown complete" is logged
MainWaitReturns ==
    /\ mainPc = "wait"
    /\ wg = 0
    /\ mainPc' = "complete"
    /\ UNCHANGED <<mainI, wg, wrapPc, stopChan, loopPc, batch, reviewQueue, deleteFailed>>
    /\ UNCHANGED <<repoVars, seqVars, consVars, cmdVars>>

\* main returns: the process ends and with it every goroutine still running;
\* a repository call that has not sent its next request never sends it
MainReturns ==
    /\ mainPc = "complete"
    /\ mainPc' = "returned"
    /\ loopPc' = [w \in Workers |-> IF loopPc[w] = "exited" THEN "exited" ELSE "killed"]
    /\ call' = [p \in Callers |-> IdleCall]
    /\ UNCHANGED <<mainI, wg, wrapPc, stopChan, batch, reviewQueue, deleteFailed>>
    /\ UNCHANGED <<backend, dynTable, sqlRows>>
    /\ UNCHANGED <<seqVars, consVars, cmdVars>>

\* ------------------------------- command.AlbumService and sns.EventBus
\* the queue message the event of a request is delivered as
MsgOf == [r \in Requests |-> CASE r = "r1" -> "m1" [] r = "r2" -> "m2" [] r = "r3" -> "m3"]

\* uuid.New() of a CreateAlbum request: an id no row and no other request has
NewAlbumID == [r \in Requests |-> CASE r = "r1" -> "N1" [] r = "r2" -> "N2" [] r = "r3" -> "N3"]

IdleRequest == [pc |-> "idle", album |-> "", result |-> ""]

\* the body the queue gets without raw message delivery: the JSON of the
\* SNS notification. Unmarshalled into a DomainEvent its "Type" member
\* ("Notification") fills the type field; it has no payload member
NotificationBody == EventBody("Notification", "scalar", FALSE)

\* mutant: a Publish that attaches the same EventType to every message
PublishedMsg_OneAttribute(eventType) ==
    IF rawDelivery
    THEN QueueMsg(EventBody(eventType, "review", FALSE), "ALBUM_CREATED")
    ELSE QueueMsg(NotificationBody, "")

\* Publisher.Publish as the subscribed queue sees it: with raw delivery the
\* event JSON and the EventType attribute, else the notification, whose
\* attributes are inside the body
PublishedMsg(eventType) ==
    IF rawDelivery
    THEN QueueMsg(EventBody(eventType, "review", FALSE), eventType)
    ELSE QueueMsg(NotificationBody, "")

\* NewDomainEvent(id, eventType, ...): the id is the one the caller hands in
NewDomainEvent(id, eventType, albumID) ==
    [id |-> id, type |-> eventType, album |-> albumID]

\* EventBus.PublishAlbumReview: the event type from the Liked flag, the
\* album id as the id of the event
PublishAlbumReview(albumID, liked) ==
    NewDomainEvent(albumID, IF liked THEN "ALBUM_LIKED" ELSE "ALBUM_DISLIKED",
                   albumID)

\* Publisher.Publish, the n-th publish call of request r: the message handed
\* to the topic, whether the topic took it; event.ID is the MessageGroupId
\* and the MessageDeduplicationId of the message
Published(r, n, e, outcome) ==
    [req |-> r, n |-> n, id |-> e.id, type |-> e.type, album |-> e.album,
     sent |-> outcome = "ok"]

\* the request is done with this result
DoneRequest(r, result) == [req EXCEPT ![r].pc = "done", ![r].result = result]

\* a client calls AlbumService.LikeAlbum
LikeAlbum(r, albumID) ==
    /\ req[r].pc = "idle"
    /\ req' = [req EXCEPT ![r] = [pc |-> "get", album |-> albumID, result |-> ""]]
    /\ cmd' = [cmd EXCEPT ![r] = "LikeAlbum"]
    /\ UNCHANGED <<albumRows, albumReviews, rawDelivery, events, images>>
    /\ UNCHANGED <<repoVars, seqVars, consVars, poolVars>>

\* a client calls AlbumService.DislikeAlbum
DislikeAlbum(r, albumID) ==
    /\ req[r].pc = "idle"
    /\ req' = [req EXCEPT ![r] = [pc |-> "get", album |-> albumID, result |-> ""]]
    /\ cmd' = [cmd EXCEPT ![r] = "DislikeAlbum"]
    /\ UNCHANGED <<albumRows, albumReviews, rawDelivery, events, images>>
    /\ UNCHANGED <<repoVars, seqVars, consVars, poolVars>>

\* mutant: a GetAlbum that reports no error when it finds no row
LikeAlbumGetAlbum_IgnoresMissing(r, outcome) ==
    /\ req[r].pc = "get"
    /\ req' = IF outcome = "ok"
              THEN [req EXCEPT ![r].pc = "save"]
              ELSE DoneRequest(r, "error")
    /\ UNCHANGED <<albumRows, albumReviews, rawDelivery, cmd, events, images>>
    /\ UNCHANGED <<repoVars, seqVars, consVars, poolVars>>

\* LikeAlbum/DislikeAlbum: albumRepo.GetAlbum; no row or a failed query
\* ends the call
LikeAlbumGetAlbum(r, outcome) ==
    /\ req[r].pc = "get"
    /\ req' = IF outcome = "ok" /\ req[r].album \in albumRows
              THEN [req EXCEPT ![r].pc = "save"]
              ELSE DoneRequest(r, "error")
    /\ UNCHANGED <<albumRows, albumReviews, rawDelivery, cmd, events, images>>
    /\ UNCHANGED <<repoVars, seqVars, consVars, poolVars>>

\* LikeAlbum/DislikeAlbum: albumRepo.SaveLike inserts a row with a fresh uuid
LikeAlbumSaveLike(r, outcome) ==
    /\ req[r].pc = "save"
    /\ albumReviews' = IF outcome = "ok"
                       THEN albumReviews \cup
                            {[id |-> r, album |-> req[r].album,
                              liked |-> cmd[r] = "LikeAlbum"]}
                       ELSE albumReviews
    /\ req' = IF outcome = "ok" THEN [req EXCEPT ![r].pc = "publish"]
              ELSE DoneRequest(r, "error")
    /\ UNCHANGED <<albumRows, rawDelivery, cmd, events, images>>
    /\ UNCHANGED <<repoVars, seqVars, consVars, poolVars>>

\* mutant: the error of the publish is the result of the call
LikeAlbumPublish_ReturnsError(r, outcome) ==
    LET e == PublishAlbumReview(req[r].album, cmd[r] = "LikeAlbum") IN
    /\ req[r].pc = "publish"
    /\ queue' = IF outcome = "ok"
                THEN [queue EXCEPT ![MsgOf[r]] = PublishedMsg(e.type)]
                ELSE queue
    /\ events' = events \cup {Published(r, 1, e, outcome)}
    /\ req' = DoneRequest(r, outcome)
    /\ UNCHANGED <<albumRows, albumReviews, rawDelivery, cmd, images>>
    /\ UNCHANGED <<handlers, ctxDone, consPc, gor>>
    /\ UNCHANGED <<repoVars, seqVars, poolVars>>

\* LikeAlbum/DislikeAlbum: eventBus.PublishAlbumReview; a failure is logged
\* and the call returns nil all the same
LikeAlbumPublish(r, outcome) ==
    LET e == PublishAlbumReview(req[r].album, cmd[r] = "LikeAlbum") IN
    /\ req[r].pc = "publish"
    /\ queue' = IF outcome = "ok"
                THEN [queue EXCEPT ![MsgOf[r]] = PublishedMsg(e.type)]
                ELSE queue
    /\ events' = events \cup {Published(r, 1, e, outcome)}
    /\ req' = DoneRequest(r, "ok")
    /\ UNCHANGED <<albumRows, albumReviews, rawDelivery, cmd, images>>
    /\ UNCHANGED <<handlers, ctxDone, consPc, gor>>
    /\ UNCHANGED <<repoVars, seqVars, poolVars>>

\* a client calls AlbumService.CreateAlbum: ValidateAlbumCreate, then the id
CreateAlbum(r, valid) ==
    /\ req[r].pc = "idle"
    /\ req' = IF valid
              THEN [req EXCEPT ![r] = [pc |-> "store", album |-> NewAlbumID[r],
                                       result |-> ""]]
              ELSE DoneRequest(r, "error")
    /\ cmd' = [cmd EXCEPT ![r] = "CreateAlbum"]
    /\ UNCHANGED <<albumRows, albumReviews, rawDelivery, events, images>>
    /\ UNCHANGED <<repoVars, seqVars, consVars, poolVars>>

\* CreateAlbum: fileManager.ProcessAndStoreImage
CreateAlbumStoreImage(r, outcome) ==
    /\ req[r].pc = "store"
    /\ images' = IF outcome = "ok" THEN images \cup {req[r].album} ELSE images
    /\ req' = IF outcome = "ok" THEN [req EXCEPT ![r].pc = "saveAlbum"]
              ELSE DoneRequest(r, "error")
    /\ UNCHANGED <<albumRows, albumReviews, rawDelivery, cmd, events>>
    /\ UNCHANGED <<repoVars, seqVars, consVars, poolVars>>

\* CreateAlbum: albumRepo.SaveAlbum; when it fails the image is cleaned up
\* (a failed cleanup is logged) and the error returned
CreateAlbumSaveAlbum(r, outcome, cleanup) ==
    /\ req[r].pc = "saveAlbum"
    /\ albumRows' = IF outcome = "ok" THEN albumRows \cup {req[r].album}
                    ELSE albumRows
    /\ images' = IF outcome = "error" /\ cleanup = "ok"
                 THEN images \ {req[r].album} ELSE images
    /\ req' = IF outcome = "ok" THEN [req EXCEPT ![r].pc = "publishCreated"]
              ELSE DoneRequest(r, "error")
    /\ UNCHANGED <<albumReviews, rawDelivery, cmd, events>>
    /\ UNCHANGED <<repoVars, seqVars, consVars, poolVars>>

\* CreateAlbum: eventBus.PublishAlbumCreated, the album id as the id of
\* the event; a failure is logged
CreateAlbumPublishCreated(r, outcome) ==
    /\ req[r].pc = "publishCreated"
    /\ events' = events \cup
                 {Published(r, 1, NewDomainEvent(req[r].album, "ALBUM_CREATED",
                                                req[r].album), outcome)}
    /\ req' = [req EXCEPT ![r].pc = "publishImage"]
    /\ UNCHANGED <<albumRows, albumReviews, rawDelivery, cmd, images>>
    /\ UNCHANGED <<repoVars, seqVars, consVars, poolVars>>

\* CreateAlbum: eventBus.PublishImageUploaded, the album id as the id of
\* the event once more; a failure is logged and the album returned
CreateAlbumPublishImage(r, outcome) ==
    /\ req[r].pc = "publishImage"
    /\ events' = events \cup
                 {Published(r, 2, NewDomainEvent(req[r].album, "IMAGE_UPLOADED",
                                                req[r].album), outcome)}
    /\ req' = DoneRequest(r, "ok")
    /\ UNCHANGED <<albumRows, albumReviews, rawDelivery, cmd, images>>
    /\ UNCHANGED <<repoVars, seqVars, consVars, poolVars>>

\* --------------------- review.DynamoDBService and review.MySQLService
\* a client calls LikeAlbum, DislikeAlbum or DeleteReview of the review
\* service: each is publishMessage with its message type
ReviewCommand(r, msgType, albumID) ==
    /\ req[r].pc = "idle"
    /\ msgType \in ReviewMessageTypes
    /\ req' = [req EXCEPT ![r] = [pc |-> "publishMessage", album |-> albumID,
                                  result |-> ""]]
    /\ cmd' = [cmd EXCEPT ![r] = msgType]
    /\ UNCHANGED <<albumRows, albumReviews, rawDelivery, events, images>>
    /\ UNCHANGED <<repoVars, seqVars, consVars, poolVars>>

\* publishMessage: snsClient.Publish of the JSON of a ReviewMessage (a type
\* and an album id, no id of its own); its error is the result of the call
publishMessage(r, outcome) ==
    /\ req[r].pc = "publishMessage"
    /\ events' = events \cup
                 {Published(r, 1, [id |-> "", type |-> cmd[r],
                                  album |-> req[r].album], outcome)}
    /\ req' = DoneRequest(r, outcome)
    /\ UNCHANGED <<albumRows, albumReviews, rawDelivery, cmd, images>>
    /\ UNCHANGED <<repoVars, seqVars, consVars, poolVars>>

\* ----------------------------------------------- SpecRepo: concurrent calls
InitStores ==
    /\ dynTable = EmptyTable
    /\ sqlRows = {}
    /\ call = [p \in Callers |-> IdleCall]

InitSeq ==
    /\ seqLen = 0
    /\ lastCall = [op |-> "", album |-> "", dynErr |-> "", sqlErr |-> ""]

\* the Consumer not constructed, the queue empty
InitNoConsumer ==
    /\ queue = [m \in Msgs |-> NoMsg]
    /\ handlers = [t \in {} |-> <<>>]
    /\ ctxDone = FALSE
    /\ consPc = "idle"
    /\ gor = {}

\* no command service running
InitNoCmd ==
    /\ albumRows = {"A1"}
    /\ albumReviews = {}
    /\ rawDelivery = FALSE
    /\ req = [r \in Requests |-> IdleRequest]
    /\ cmd = [r \in Requests |-> ""]
    /\ events = {}
    /\ images = {"A1"}

\* the worker main not started
InitNoPool ==
    /\ mainPc = "off"
    /\ mainI = 0
    /\ wg = 0
    /\ wrapPc = [w \in Workers |-> "none"]
    /\ stopChan = [w \in Workers |-> FALSE]
    /\ loopPc = [w \in Workers |-> "none"]
    /\ batch = [w \in Workers |-> <<>>]
    /\ reviewQueue = [m \in Msgs |-> NoReviewMsg]
    /\ deleteFailed = [m \in Msgs |-> 0]

InitRepo ==
    /\ backend \in Backends
    /\ InitStores
    /\ InitSeq
    /\ InitNoConsumer
    /\ InitNoPool
    /\ InitNoCmd

\* a caller invokes AddLike, AddDislike or Delete on the repository
CallerCalls(p, op, albumID) ==
    /\ call[p].pc = "idle"
    /\ call' = [call EXCEPT ![p] = NewCall(op, albumID)]
    /\ UNCHANGED <<backend, dynTable, sqlRows>>
    /\ UNCHANGED nonRepoVars

NextRepo ==
    \/ \E p \in Callers, op \in RepoOps, a \in Albums : CallerCalls(p, op, a)
    \/ \E p \in Callers : RepoStep(p)

SpecRepo == InitRepo /\ [][NextRepo]_vars

\* ------------------------------- SpecSeq: one call after another, both backends
\* the same call made on the DynamoDB repository and on the MySQL repository,
\* each call returning before the next one starts
SeqCall(op, albumID) ==
    /\ seqLen < MaxSeqLen
    /\ dynTable' = IF op = "Delete"
                   THEN DynDelete(dynTable, albumID).tbl
                   ELSE DynaddCount(dynTable, albumID, CounterName(op))
    /\ sqlRows' = IF op = "Delete"
                  THEN SqlDelete(sqlRows, albumID).rows
                  ELSE SqladdCount(sqlRows, albumID, CounterName(op))
    /\ lastCall' = [op |-> op, album |-> albumID,
                    dynErr |-> IF op = "Delete"
                               THEN DynDelete(dynTable, albumID).err ELSE "",
                    sqlErr |-> IF op = "Delete"
                               THEN SqlDelete(sqlRows, albumID).err ELSE ""]
    /\ seqLen' = seqLen + 1
    /\ UNCHANGED <<backend, call>>
    /\ UNCHANGED <<consVars, poolVars, cmdVars>>

InitSeqSpec ==
    /\ backend = "dynamodb"
    /\ InitStores
    /\ InitSeq
    /\ InitNoConsumer
    /\ InitNoPool
    /\ InitNoCmd

NextSeq == \E op \in RepoOps, a \in Albums : SeqCall(op, a)

SpecSeq == InitSeqSpec /\ [][NextSeq]_vars

\* ------------------------------------ SpecConsumer: one Consumer, one queue
\* NewConsumer, RegisterHandlers, then Start on a queue holding two messages
InitConsumer ==
    /\ backend = "dynamodb"
    /\ InitStores
    /\ InitSeq
    /\ queue \in {q \in [Msgs -> QueueInputs \cup {NoMsg}] :
                      /\ q["m1"] \in QueueInputs
                      /\ q["m2"] \in {LikedMsg, BadPayloadMsg}
                      /\ q["m3"] = NoMsg}
    /\ handlers = RegisterHandlers([t \in {} |-> <<>>])
    /\ ctxDone = FALSE
    /\ consPc = "select"
    /\ gor = {}
    /\ InitNoPool
    /\ InitNoCmd

NextConsumer ==
    \/ ConsumerSelect
    \/ \E S \in SUBSET Msgs : ConsumerReceive(S)
    \/ ConsumerReceiveFails
    \/ ConsumerBackoff
    \/ ConsumerCancel
    \/ \E m \in Msgs : VisibilityTimeout(m)
    \/ \E g \in gor, o \in {"ok", "error"} : ProcessMessageHandlerReturns(g, o)
    \/ \E g \in gor : ProcessMessageDecide(g)
    \/ \E g \in gor, o \in {"ok", "error"} : ProcessMessageDelete(g, o)

SpecConsumer == InitConsumer /\ [][NextConsumer]_vars

\* SpecImage: the Consumer with the invocation made by HandleImageUploaded
\* taken in its parts
NextImage ==
    \/ \E g \in gor : HandleImageUploadedInvoke(g)
    \/ \E g \in gor : InvokeCompletes(g)
    \/ NextConsumer

SpecImage == InitConsumer /\ [][NextImage]_vars

\* ------------------------- SpecPool: the worker main and its processors
InitPool ==
    /\ backend \in Backends
    /\ InitStores
    /\ InitSeq
    /\ InitNoConsumer
    /\ mainPc = "spawn"
    /\ mainI = 0
    /\ wg = 0
    /\ wrapPc = [w \in Workers |-> "none"]
    /\ stopChan = [w \in Workers |-> FALSE]
    /\ loopPc = [w \in Workers |-> "none"]
    /\ batch = [w \in Workers |-> <<>>]
    /\ reviewQueue \in {q \in [Msgs -> ReviewInputs \cup {NoReviewMsg}] :
                            /\ q["m1"] \in ReviewInputs
                            /\ q["m2"] = AddLikeMsg
                            /\ q["m3"] = NoReviewMsg}
    /\ deleteFailed = [m \in Msgs |-> 0]
    /\ InitNoCmd

NextPool ==
    \/ MainSpawn
    \/ \E w \in Workers : WrapperRuns(w)
    \/ MainSignal
    \/ MainStop
    \/ MainWaitReturns
    \/ MainReturns
    \/ \E w \in Workers : LoopSelect(w)
    \/ \E w \in Workers, b \in AllBatches : LoopReceive(w, b)
    \/ \E w \in Workers : LoopReceiveFails(w)
    \/ \E w \in Workers : LoopSleep(w)
    \/ \E w \in Workers : LoopSkipMessage(w)
    \/ \E w \in Workers : LoopRepoFails(w)
    \/ \E w \in Workers : LoopRepoReturns(w)
    \/ \E w \in Workers, o \in {"ok", "error"} : LoopDeleteMessage(w, o)
    \/ \E m \in Msgs : ReviewVisibilityTimeout(m)
    \/ \E p \in Callers : RepoStep(p)

SpecPool == InitPool /\ [][NextPool]_vars

\* ------------- SpecWorkers: either kind of worker, up to and after its signal
InitWorkers ==
    \/ InitPool
    \/ /\ InitConsumer
       /\ queue["m1"] \in {LikedMsg, QueueMsg(MalformedBody, "ALBUM_LIKED"),
                          QueueMsg(EventBody("ALBUM_ARCHIVED", "review", FALSE),
                                   "ALBUM_ARCHIVED")}
       /\ queue["m2"] = BadPayloadMsg

NextWorkers == NextPool \/ NextConsumer

SpecWorkers == InitWorkers /\ [][NextWorkers]_vars

\* the steps of worker w of the pool: its wrapper goroutine, its polling
\* loop and the repository call its handler is in
WorkerStep(w) ==
    \/ WrapperRuns(w)
    \/ LoopSelect(w)
    \/ \E b \in AllBatches : LoopReceive(w, b)
    \/ LoopReceiveFails(w)
    \/ LoopSleep(w)
    \/ LoopSkipMessage(w)
    \/ LoopRepoFails(w)
    \/ LoopRepoReturns(w)
    \/ \E o \in {"ok", "error"} : LoopDeleteMessage(w, o)
    \/ RepoStep(w)

\* the steps of the loop of Consumer.Start
ConsumerLoopStep ==
    \/ ConsumerSelect
    \/ \E S \in SUBSET Msgs : ConsumerReceive(S)
    \/ ConsumerReceiveFails
    \/ ConsumerBackoff


\* ----------- SpecCmd: LikeAlbum requests, the event bus, a running Consumer
InitCmd ==
    /\ backend \in Backends
    /\ InitStores
    /\ InitSeq
    /\ InitNoPool
    /\ queue = [m \in Msgs |-> NoMsg]
    /\ handlers = RegisterHandlers([t \in {} |-> <<>>])
    /\ ctxDone = FALSE
    /\ consPc = "select"
    /\ gor = {}
    /\ albumRows = {"A1"}
    /\ albumReviews = {}
    /\ rawDelivery \in BOOLEAN
    /\ req = [r \in Requests |-> IdleRequest]
    /\ cmd = [r \in Requests |-> ""]
    /\ events = {}
    /\ images = {"A1"}

NextCmd ==
    \/ \E r \in Requests, a \in Albums : LikeAlbum(r, a)
    \/ \E r \in Requests, o \in {"ok", "error"} : LikeAlbumGetAlbum(r, o)
    \/ \E r \in Requests, o \in {"ok", "error"} : LikeAlbumSaveLike(r, o)
    \/ \E r \in Requests, o \in {"ok", "error"} : LikeAlbumPublish(r, o)
    \/ NextConsumer

SpecCmd == InitCmd /\ [][NextCmd]_vars

\* --- SpecDispatch: a Consumer, the handlers registered on it, one message
InitDispatch ==
    /\ backend = "dynamodb"
    /\ InitStores
    /\ InitSeq
    /\ queue \in {q \in [Msgs -> QueueInputs \cup {NoMsg}] :
                      /\ q["m1"] \in {LikedMsg, BadPayloadMsg,
                                      QueueMsg(EventBody("IMAGE_UPLOADED", "image",
                                                         TRUE), "IMAGE_UPLOADED")}
                      /\ q["m2"] = NoMsg
                      /\ q["m3"] = NoMsg}
    /\ handlers = [t \in {} |-> <<>>]
    /\ ctxDone = FALSE
    /\ consPc = "new"
    /\ gor = {}
    /\ InitNoPool
    /\ InitNoCmd

NextDispatch ==
    \/ \E p \in Registrations : ConsumerRegisterHandler(p[1], p[2])
    \/ ConsumerStart
    \/ \E m \in Msgs : VisibilityTimeoutDuringPass(m)
    \/ NextConsumer

SpecDispatch == InitDispatch /\ [][NextDispatch]_vars

\* SpecRedeliver: the worker main and its processors; one message, or two
\* for another album, or one for each album
InitRedeliver ==
    /\ backend \in Backends
    /\ InitStores
    /\ InitSeq
    /\ InitNoConsumer
    /\ mainPc = "spawn"
    /\ mainI = 0
    /\ wg = 0
    /\ wrapPc = [w \in Workers |-> "none"]
    /\ stopChan = [w \in Workers |-> FALSE]
    /\ loopPc = [w \in Workers |-> "none"]
    /\ batch = [w \in Workers |-> <<>>]
    /\ reviewQueue \in {q \in [Msgs -> ReviewInputs \cup {NoReviewMsg}] :
                            /\ q["m1"] \in ReviewInputs
                            /\ q["m2"] = NoReviewMsg
                            /\ q["m3"] = NoReviewMsg}
                      \cup
                      {[m \in Msgs |-> IF m = "m1" THEN NoReviewMsg
                                       ELSE ReviewQueueMsg(TRUE, "add_like", "A2")]}
                      \cup
                      {[m \in Msgs |-> CASE m = "m1" -> AddLikeMsg
                                         [] m = "m2" -> ReviewQueueMsg(TRUE, "add_like", "A2")
                                         [] m = "m3" -> NoReviewMsg]}
    /\ deleteFailed = [m \in Msgs |-> 0]
    /\ InitNoCmd

SpecRedeliver == InitRedeliver /\ [][NextPool]_vars

\* SpecExit: either kind of worker, and every worker keeps running: a
\* receive, handler, store or delete call it is in returns, a sleep it is in
\* ends, its select is evaluated. Nothing is assumed of main or of the owner
\* of the context
InitExit ==
    \/ InitRedeliver
    \/ /\ InitConsumer
       /\ queue["m1"] = LikedMsg
       /\ queue["m2"] = BadPayloadMsg

SpecExit ==
    /\ InitExit
    /\ [][NextWorkers]_vars
    /\ \A w \in Workers : WF_vars(WorkerStep(w))
    /\ WF_vars(ConsumerLoopStep)

\* ------- SpecPublish: the command operations of both services on their own
InitPublish ==
    /\ backend \in Backends
    /\ InitStores
    /\ InitSeq
    /\ InitNoConsumer
    /\ InitNoPool
    /\ albumRows = {"A1"}
    /\ albumReviews = {}
    /\ rawDelivery \in BOOLEAN
    /\ req = [r \in Requests |-> IdleRequest]
    /\ cmd = [r \in Requests |-> ""]
    /\ events = {}
    /\ images = {"A1"}

NextPublish ==
    \/ \E r \in Requests, a \in Albums : LikeAlbum(r, a)
    \/ \E r \in Requests, a \in Albums : DislikeAlbum(r, a)
    \/ \E r \in Requests, o \in {"ok", "error"} : LikeAlbumGetAlbum(r, o)
    \/ \E r \in Requests, o \in {"ok", "error"} : LikeAlbumSaveLike(r, o)
    \/ \E r \in Requests, o \in {"ok", "error"} : LikeAlbumPublish(r, o)
    \/ \E r \in Requests, v \in BOOLEAN : CreateAlbum(r, v)
    \/ \E r \in Requests, o \in {"ok", "error"} : CreateAlbumStoreImage(r, o)
    \/ \E r \in Requests, o, c \in {"ok", "error"} : CreateAlbumSaveAlbum(r, o, c)
    \/ \E r \in Requests, o \in {"ok", "error"} : CreateAlbumPublishCreated(r, o)
    \/ \E r \in Requests, o \in {"ok", "error"} : CreateAlbumPublishImage(r, o)
    \/ \E r \in Requests, t \in ReviewMessageTypes, a \in Albums :
          ReviewCommand(r, t, a)
    \/ \E r \in Requests, o \in {"ok", "error"} : publishMessage(r, o)

SpecPublish == InitPublish /\ [][NextPublish]_vars

\* ---- SpecRoute: one like or dislike request, the event bus, a Consumer
NextRoute ==
    \/ \E a \in Albums : LikeAlbum("r1", a)
    \/ \E a \in Albums : DislikeAlbum("r1", a)
    \/ \E o \in {"ok", "error"} : LikeAlbumGetAlbum("r1", o)
    \/ \E o \in {"ok", "error"} : LikeAlbumSaveLike("r1", o)
    \/ \E o \in {"ok", "error"} : LikeAlbumPublish("r1", o)
    \/ NextConsumer

SpecRoute == InitCmd /\ [][NextRoute]_vars

\* ================================================================ claims

\* C1: when all K concurrent AddLike calls for one album have returned
\* success, the album's likeCount equals K (no update is lost).
C1_NoLostUpdate ==
    \A a \in Albums :
        (\A p \in Callers : /\ call[p].pc = "done"
                            /\ call[p].op = "AddLike"
                            /\ call[p].album = a
                            /\ call[p].result = "ok")
        => GetByAlbumID(a).likeCount = NumCallers

C4_DeleteAbsentFails ==
    [][\A p \in Callers, a \in Albums :
        (/\ call[p].pc = "called"
         /\ call[p].op = "Delete"
         /\ call[p].album = a
         /\ call'[p].pc = "done"
         /\ ~GetByAlbumID(a).present)
        => /\ call'[p].result = "error"
           /\ dynTable' = dynTable
           /\ sqlRows' = sqlRows]_vars

C4_Witness ==
    \E p \in Callers, b \in Albums :
        /\ call[p].pc = "done"
        /\ call[p].op = "Delete"
        /\ call[p].result = "error"
        /\ b # call[p].album
        /\ ~GetByAlbumID(call[p].album).present
        /\ GetByAlbumID(b).present

\* C5: without a Delete of the album in between, likeCount and dislikeCount
\* of an album never become smaller than they were.
C5_CountersMonotone ==
    [][\A a \in Albums :
        (GetByAlbumID(a).present /\ GetByAlbumID(a)'.present)
        => /\ GetByAlbumID(a)'.likeCount >= GetByAlbumID(a).likeCount
           /\ GetByAlbumID(a)'.dislikeCount >= GetByAlbumID(a).dislikeCount]_vars

\* the delete call processMessage issues for the delivery of goroutine g
DeleteIssued(g) == [g EXCEPT !.pc = "delete"] \in gor'

\* C6: a message whose handler fails on every delivery is deleted by the
\* delivery whose approximateReceiveCount first exceeds the retry ceiling
\* (the 4th) and by no earlier one.
C6_RetryCeiling ==
    [][\A g \in gor :
        (/\ g.pc = "decide"
         /\ g \notin gor'
         /\ parseEventPayload(queue[g.msg].body) = "error")
        => (DeleteIssued(g) <=> g.receipt > maxRetries)]_vars

\* C7: for a well-formed message with a registered handler the Consumer issues
\* the delete for a delivery exactly when every handler returned success or
\* the delivery's approximateReceiveCount is above the retry ceiling.
C7_AckPolicy ==
    [][\A g \in gor :
        (g.pc = "decide" /\ g \notin gor')
        => (DeleteIssued(g) <=> (g.errs = 0 \/ g.receipt > maxRetries))]_vars

\* C8: when main reports the shutdown complete (wg.Wait has returned after
\* Stop was called on every processor), the polling loop of every worker has
\* exited.
C8_CompleteMeansLoopsExited ==
    mainPc = "complete" => \A w \in Workers : loopPc[w] = "exited"

\* C9: once the cancellation signal has been given, no worker issues a
\* receive call.
C9_NoReceiveAfterSignal ==
    [][/\ \A w \in Workers :
            (stopChan[w] /\ loopPc[w] = "receive")
            => loopPc'[w] \in {"receive", "killed"}
       /\ (ctxDone /\ consPc = "receive") => consPc' = "receive"]_vars

\* C9 (as the code has it): once the cancellation signal has been given, no
\* worker passes the cancellation check at the top of its loop, so none
\* starts a new polling iteration; the only receive call a worker still
\* issues is the one whose check had passed before the signal.
C9_NoNewIterationAfterSignal ==
    [][/\ \A w \in Workers :
            (stopChan[w] /\ loopPc[w] # "receive") => loopPc'[w] # "receive"
       /\ (ctxDone /\ consPc # "receive") => consPc' # "receive"]_vars

\* one stopped processor about to issue the receive call whose check passed
\* before Stop, another that met the closed stopChan at its check and exited
C9_Witness ==
    \E w, v \in Workers :
        /\ stopChan[w] /\ loopPc[w] = "receive"
        /\ stopChan[v] /\ loopPc[v] = "exited"

\* C10: three LikeAlbum requests for album A1 have returned nil, the event
\* of each was delivered once and deleted, and nothing is in flight any
\* more: GetByAlbumID("A1") reports likeCount 3.
C10_ThreeLikesCounted ==
    (/\ \A r \in Requests :
          /\ req[r] = [pc |-> "done", album |-> "A1", result |-> "ok"]
          /\ queue[MsgOf[r]].state = "deleted"
          /\ queue[MsgOf[r]].recv = 1
     /\ gor = {})
    => GetByAlbumID("A1").likeCount = 3

\* C11: every DomainEvent the publish path builds carries an id that no other
\* event carries: two events of distinct publish calls, also of two
\* like/dislike requests for one album, never have equal ids, hence never
\* equal deduplication keys.
C11_EventIdsUnique ==
    \A e, f \in events :
        (e # f /\ e.type \in EventTypes /\ f.type \in EventTypes)
        => e.id # f.id

\* C12: a like message whose handler succeeded and whose DeleteMessage call
\* then failed is delivered again and handled again: when the message is
\* deleted at last, likeCount of its album stands at one more than the
\* number of failed deletes, 2 after one failed delete (the message being
\* the only one for its album). Nothing between the queue and the counter
\* tells a second delivery from a first one.
C12_RedeliveryCountsAgain ==
    \A m \in Msgs :
        (/\ reviewQueue[m].type = "add_like"
         /\ reviewQueue[m].state = "deleted"
         /\ \A n \in Msgs \ {m} : reviewQueue[n].album # reviewQueue[m].album)
        => GetByAlbumID(reviewQueue[m].album).likeCount = deleteFailed[m] + 1

\* the like message was handled, its delete failed, it was delivered a second
\* time, handled and deleted: likeCount is 2 for the one message
C12_Witness ==
    /\ reviewQueue["m1"].type = "add_like"
    /\ reviewQueue["m1"].state = "deleted"
    /\ reviewQueue["m1"].recv = 2
    /\ deleteFailed["m1"] = 1
    /\ GetByAlbumID("A1").likeCount = 2

\* C13: a LikeAlbum/DislikeAlbum call whose SaveLike succeeded goes on to the
\* publish and returns nil whatever the publish returns, and the row SaveLike
\* wrote stays in album_reviews: every like/dislike event handed to the
\* publisher, accepted or not, has the row of its request in the table.
C13_PublishFailureNotReturned ==
    /\ \A r \in Requests :
          (\E row \in albumReviews : row.id = r)
          => /\ req[r].pc \in {"publish", "done"}
             /\ req[r].pc = "done" => req[r].result = "ok"
    /\ \A e \in events :
          e.type \in {"ALBUM_LIKED", "ALBUM_DISLIKED"}
          => \E row \in albumReviews :
                /\ row.id = e.req
                /\ row.album = e.album
                /\ row.liked = (e.type = "ALBUM_LIKED")

\* a like whose row was written and whose publish failed has returned nil
C13_Witness ==
    \E e \in events :
        /\ e.type = "ALBUM_LIKED"
        /\ ~e.sent
        /\ req[e.req].pc = "done"
        /\ req[e.req].result = "ok"
        /\ \E row \in albumReviews : row.id = e.req

\* C14: a message whose event type has no registered handler goes straight
\* to the delete call on the delivery that brings it, the first one
\* included, and the messages around it are dispatched all the same. For
\* the Consumer: every message of a received batch gets its goroutine, at
\* the delete call when no handler is registered for its type, at its first
\* handler when one is. For the MessageProcessor: a message of unknown type
\* is at the delete call with no repository call made, one of known type at
\* its repository call, and after a delete call, failed or not, the
\* processor is at the next message of the batch.
C14_UnhandledDeletedOthersDispatched ==
    [][/\ \A m \in Msgs :
            queue'[m].recv > queue[m].recv
            => \E g \in gor' :
                  /\ g.msg = m
                  /\ g.receipt = queue'[m].recv
                  /\ Len(HandlersFor(DispatchType(queue[m]))) = 0
                     => g.pc = "delete" /\ g.i = 0
                  /\ (/\ queue[m].body.wellFormed
                      /\ Len(HandlersFor(DispatchType(queue[m]))) > 0)
                     => g.pc = "handler" /\ g.i = 1
       /\ \A w \in Workers :
            (batch'[w] # batch[w] /\ batch'[w] # <<>>)
            => LET m == reviewQueue[Head(batch'[w])] IN
               /\ (m.wellFormed /\ m.type \notin ReviewMessageTypes)
                  => loopPc'[w] = "delete" /\ call'[w] = IdleCall
               /\ (m.wellFormed /\ m.type \in ReviewMessageTypes)
                  => /\ loopPc'[w] = "repo"
                     /\ call'[w] = NewCall(RepoOpOf(m.type), m.album)
       /\ \A w \in Workers :
            (loopPc[w] = "delete" /\ loopPc'[w] \notin {"delete", "killed"})
            => batch'[w] = Tail(batch[w])
       /\ \A w \in Workers :
            (loopPc[w] = "delete" /\ loopPc'[w] = "delete")
            => batch'[w] = batch[w] \/ batch'[w] = Tail(batch[w])]_vars

\* a message of unknown type was deleted on its first delivery and the
\* message received with it is at its repository call; or a message with no
\* handler was deleted on its first delivery while the goroutine of another
\* message is at its handler
C14_Witness ==
    \/ \E w \in Workers :
          /\ reviewQueue["m1"].type \notin ReviewMessageTypes
          /\ reviewQueue["m1"].wellFormed
          /\ reviewQueue["m1"].state = "deleted"
          /\ reviewQueue["m1"].recv = 1
          /\ batch[w] = <<"m2">>
          /\ loopPc[w] = "repo"
    \/ \E g \in gor :
          /\ queue["m1"].body.wellFormed
          /\ Len(HandlersFor(DispatchType(queue["m1"]))) = 0
          /\ queue["m1"].state = "deleted"
          /\ queue["m1"].recv = 1
          /\ g.msg = "m2"
          /\ g.pc = "handler"

\* C15: a message whose body cannot be deserialized goes to the delete call
\* on the delivery that detects it, with no handler and no repository call
\* made for it, so that it does not come back: the goroutine the Consumer
\* starts for it is at the delete call, and the MessageProcessor that
\* reaches it in its batch is at the delete call.
C15_MalformedDeleted ==
    [][/\ \A m \in Msgs :
            (queue'[m].recv > queue[m].recv /\ ~queue[m].body.wellFormed)
            => \E g \in gor' :
                  /\ g.msg = m
                  /\ g.receipt = queue'[m].recv
                  /\ g.pc = "delete"
                  /\ g.i = 0
       /\ \A w \in Workers :
            (/\ batch'[w] # batch[w]
             /\ batch'[w] # <<>>
             /\ ~reviewQueue[Head(batch'[w])].wellFormed)
            => loopPc'[w] = "delete" /\ call'[w] = IdleCall]_vars

\* C16: for a message whose event type has several registered handlers,
\* processMessage calls every one of them in the order of registration,
\* also after one of them returned an error: at every step the handlers
\* that have returned for a delivery are the first i - 1 registered ones,
\* and all of them once the goroutine is past the loop. RegisterHandler
\* only appends: the list a type had before a step is a prefix of the list
\* it has after it.
C16_AllHandlersInOrder ==
    [][/\ \A g \in gor' :
            LET type == DispatchType(queue'[g.msg])
                hs == IF type \in DOMAIN handlers' THEN handlers'[type] ELSE <<>>
            IN  /\ g.pc = "handler" => g.ran = SubSeq(hs, 1, g.i - 1)
                /\ g.pc = "decide" => g.ran = hs
                /\ (g.pc = "delete" /\ g.i > 0) => g.ran = hs
       /\ \A type \in DOMAIN handlers :
            /\ type \in DOMAIN handlers'
            /\ Len(handlers'[type]) >= Len(handlers[type])
            /\ SubSeq(handlers'[type], 1, Len(handlers[type])) = handlers[type]
      ]_vars

\* two handlers are registered for IMAGE_UPLOADED, the first returned an
\* error (the second never does for this message) and the second has run
C16_Witness ==
    \E g \in gor :
        /\ g.pc = "decide"
        /\ g.errs = 1
        /\ g.ran = <<"HandleImageUploaded", "HandleAlbumCreated">>
        /\ handlers["IMAGE_UPLOADED"] = g.ran

\* C17: whatever AddLike and AddDislike calls the workers make for one album
\* and however their steps interleave, once all of them have returned
\* success (no Delete among them) likeCount is the number of the AddLike
\* calls and dislikeCount the number of the AddDislike calls.
C17_IncrementsCommute ==
    \A a \in Albums :
        (\A p \in Callers : /\ call[p].pc = "done"
                            /\ call[p].op \in {"AddLike", "AddDislike"}
                            /\ call[p].album = a
                            /\ call[p].result = "ok")
        => /\ GetByAlbumID(a).likeCount =
                Cardinality({p \in Callers : call[p].op = "AddLike"})
           /\ GetByAlbumID(a).dislikeCount =
                Cardinality({p \in Callers : call[p].op = "AddDislike"})

\* C18: cancellation leaves the work on an already received batch as it
\* would have been without it: a processMessage goroutine that is at its
\* delete call can have the call succeed also when the context has been
\* cancelled in the meantime, and no MessageProcessor is ended with
\* messages of its batch still to handle.
C18_InFlightBatchCompletes ==
    /\ \A g \in gor :
          (ctxDone /\ g.pc = "delete") => ENABLED ProcessMessageDelete(g, "ok")
    /\ \A w \in Workers : loopPc[w] = "killed" => batch[w] = <<>>

\* C19: an event is published only after the durable write it tells of has
\* succeeded: every like/dislike message the topic has taken has the row of
\* its request in album_reviews, and every album-created event has its
\* album in the albums table.
C19_WriteBeforePublish ==
    \A e \in events :
        e.sent
        => /\ e.type \in {"ALBUM_LIKED", "ALBUM_DISLIKED", "add_like", "add_dislike"}
              => \E row \in albumReviews :
                    /\ row.id = e.req
                    /\ row.album = e.album
                    /\ row.liked = (e.type \in {"ALBUM_LIKED", "add_like"})
           /\ e.type = "ALBUM_CREATED" => e.album \in albumRows

\* C20: a failed receive call never ends a worker: from its receive call a
\* worker goes to its backoff (or on to the batch), from the backoff back
\* to the top of its loop. A failed handler or delete call triggers no
\* backoff, the backoff is entered from the receive call only, and it does
\* not stop the worker: a processMessage goroutine's steps leave the
\* Consumer's loop where it is, and a MessageProcessor goes from a message
\* to the next one or to the top of its loop. (A processor is otherwise
\* ended only by the exit of the process.)
C20_ReceiveFailureBacksOff ==
    [][/\ consPc = "receive" => consPc' \in {"receive", "backoff", "select"}
       /\ consPc = "backoff" => consPc' \in {"backoff", "select"}
       /\ (consPc' = "backoff" /\ consPc # "backoff") => consPc = "receive"
       /\ (\E g \in gor : g \notin gor') => consPc' = consPc
       /\ \A w \in Workers :
            /\ loopPc[w] = "receive"
               => loopPc'[w] \in {"receive", "sleep", "select", "skip",
                                  "delete", "repo", "killed"}
            /\ loopPc[w] = "sleep" => loopPc'[w] \in {"sleep", "select", "killed"}
            /\ (loopPc'[w] = "sleep" /\ loopPc[w] # "sleep")
               => loopPc[w] = "receive"
            /\ loopPc[w] \in {"skip", "repo", "delete"}
               => loopPc'[w] \in {"select", "skip", "delete", "repo", "killed"}
      ]_vars

\* a MessageProcessor's delete call had failed, the processor polled again,
\* its receive call failed and it is in its backoff; or the Consumer is in
\* its backoff while a goroutine whose handler failed is still running
C20_Witness ==
    \/ \E w \in Workers :
          /\ loopPc[w] = "sleep"
          /\ \A v \in Workers \ {w} : loopPc[v] = "none"
          /\ \E m \in Msgs : deleteFailed[m] > 0
    \/ /\ consPc = "backoff"
       /\ \E g \in gor : g.errs > 0

\* C21: within one worker the messages of a batch are processed concurrently:
\* while the handler of one message of the batch has not returned, the
\* handler of another message of the batch can return. For the Consumer:
\* of two goroutines at their handlers either can take its step. For the
\* MessageProcessor: while the repository call for the first message of the
\* batch is running, a later message of the batch can be done with.
C21_BatchProcessedConcurrently ==
    /\ \A g, h \in gor :
          (g # h /\ g.pc = "handler" /\ h.pc = "handler")
          => \E o \in {"ok", "error"} : ENABLED ProcessMessageHandlerReturns(h, o)
    /\ \A w \in Workers :
          (loopPc[w] = "repo" /\ Len(batch[w]) >= 2)
          => ENABLED (/\ NextPool
                      /\ loopPc'[w] = "repo"
                      /\ call'[w] = call[w]
                      /\ Len(batch'[w]) < Len(batch[w]))

\* C22: within one worker a message is never in two handler passes at the
\* same time, also when the queue delivers it again while a pass for it is
\* running: no two processMessage goroutines of the Consumer that run
\* handlers work on the same message, and no message is twice in the batch of a MessageProcessor.
C22_OnePassPerMessage ==
    /\ \A g, h \in gor : (g # h /\ g.i > 0 /\ h.i > 0) => g.msg # h.msg
    /\ \A w \in Workers :
          \A i, j \in DOMAIN batch[w] : i # j => batch[w][i] # batch[w][j]

\* C23: a worker issues its next receive call only after every message of
\* the batch before has been dispatched to the end, so that it never has
\* more than one batch in flight: while the Consumer is at its receive call
\* no processMessage goroutine is running, and a MessageProcessor at its
\* receive call has no message of a batch left.
C23_OneBatchInFlight ==
    /\ consPc = "receive" => gor = {}
    /\ \A w \in Workers : loopPc[w] = "receive" => batch[w] = <<>>

\* C24: when the event type used for dispatch does not fit the shape of the
\* payload in the body, the handler that is invoked returns an error: the
\* step in which a handler returns for such a delivery adds one to the
\* errors of the pass.
C24_MismatchRejected ==
    [][\A g \in gor :
          LET type == DispatchType(queue[g.msg])
              shape == CASE type = "ALBUM_CREATED" -> "created"
                         [] type \in {"ALBUM_LIKED", "ALBUM_DISLIKED"} -> "review"
                         [] type = "IMAGE_UPLOADED" -> "image"
                         [] OTHER -> "none"
          IN  (/\ g.pc = "handler"
               /\ g \notin gor'
               /\ queue[g.msg].body.payload # shape)
              => \E h \in gor' : /\ h.msg = g.msg
                                 /\ h.receipt = g.receipt
                                 /\ h.errs = g.errs + 1]_vars

\* C25: an event handed to Publisher.Publish and delivered as it was
\* published (raw message delivery) is dispatched on its own type: the
\* EventType attribute of the queue message, the type member of its body
\* and the type processMessage looks the handlers up with are the type of
\* the event, the payload in the body is the one published, and a pass that
\* is through with its handlers has run those registered for that type.
C25_DispatchOnPublishedType ==
    \A e \in events :
        (rawDelivery /\ e.sent /\ queue[MsgOf[e.req]].state # "absent")
        => LET msg == queue[MsgOf[e.req]] IN
           /\ msg.attrType = e.type
           /\ msg.body.wellFormed
           /\ msg.body.type = e.type
           /\ msg.body.payload = "review"
           /\ DispatchType(msg) = e.type
           /\ \A g \in gor :
                 g.msg = MsgOf[e.req]
                 => /\ g.i > 0
                    /\ g.pc \in {"decide", "delete"} => g.ran = handlers[e.type]

\* a dislike was published, delivered raw, and the pass for it has run the
\* handler registered for ALBUM_DISLIKED
C25_Witness ==
    /\ rawDelivery
    /\ \E e \in events, g \in gor :
          /\ e.sent
          /\ e.type = "ALBUM_DISLIKED"
          /\ g.msg = MsgOf[e.req]
          /\ g.pc = "decide"
          /\ g.ran = <<"HandleAlbumDisliked">>

\* C26: HandleImageUploaded invokes the image-processing function exactly
\* when requiresProcessing is set and does not wait for the processing: a
\* handler that has sent the invocation can return success while the
\* function is still running, and a pass is in an invocation only for an
\* IMAGE_UPLOADED payload with the flag set.
C26_InvokeFireAndForget ==
    \A g \in gor :
        g.pc \in {"invoke", "invoked"}
        => /\ RequiresProcessing(queue[g.msg].body)
           /\ HandlersFor(DispatchType(queue[g.msg]))[g.i] = "HandleImageUploaded"
           /\ ENABLED ProcessMessageHandlerReturns(g, "ok")

\* C27: after its cancellation signal (stopChan closed for a
\* MessageProcessor, the context cancelled for the Consumer) every worker
\* eventually leaves its polling loop, whatever it was in when the signal
\* came (a receive, a handler, a delete call, a backoff sleep), provided its
\* steps are taken when they can be; a MessageProcessor leaves by its return
\* or with the process when main returns first.
C27_WorkersExitAfterSignal ==
    /\ \A w \in Workers : stopChan[w] ~> (loopPc[w] \in {"exited", "killed"})
    /\ (ctxDone /\ consPc # "idle") ~> (consPc = "stopped")

\* a MessageProcessor has returned from its loop after Stop while main is
\* still running
C27_Witness ==
    \E w \in Workers :
        /\ stopChan[w]
        /\ loopPc[w] = "exited"
        /\ mainPc # "returned"

C30_OneRowPerAlbum ==
    \A a \in Albums : Cardinality(SqlRowsOf(sqlRows, a)) <= 1

\* two addCount transactions for the same album both found no row; one has
\* committed its INSERT, the other was rolled back
C30_Witness ==
    /\ backend = "mysql"
    /\ \E p, q \in Callers :
          /\ p # q
          /\ call[p].op \in {"AddLike", "AddDislike"}
          /\ call[q].op \in {"AddLike", "AddDislike"}
          /\ call[p].album = call[q].album
          /\ call[p].pc = "done" /\ call[p].result = "ok"
          /\ call[q].pc = "done" /\ call[q].result = "error"
          /\ \A r \in Callers \ {p, q} : call[r].pc = "idle"
          /\ Cardinality(SqlRowsOf(sqlRows, call[p].album)) = 1

\* C29: the workers of the pool do not block each other: whatever the other
\* workers are in (a receive, a sleep, a store call), a worker at its
\* receive call can have it return, a worker at its delete call can have it
\* succeed, and a worker whose handler is in a store call for an album no
\* other worker has a call for can take the next step of that call without
\* the call failing.
C29_WorkersDoNotBlock ==
    \A v \in Workers :
        /\ (loopPc[v] = "receive" /\ SumRecv(Msgs) < MaxDeliveries)
           => ENABLED (\E b \in AllBatches : LoopReceive(v, b))
        /\ loopPc[v] = "delete" => ENABLED LoopDeleteMessage(v, "ok")
        /\ (/\ loopPc[v] = "repo"
            /\ call[v].pc # "done"
            /\ \A w \in Workers \ {v} : call[w].pc \in {"idle", "done"}
                                        \/ call[w].album # call[v].album)
           => IF call[v].op = "Delete"
              THEN ENABLED (DynDeleteCall(v) \/ SqlDeleteCall(v))
              ELSE ENABLED (RepoStep(v) /\ call'[v].result # "error")

\* C31: an AddLike that succeeds changes nothing but the likeCount of its
\* album, and an AddDislike nothing but the dislikeCount: the step by which
\* the call writes leaves the other counter of the album (zero when the
\* album has no aggregate) and the aggregate of every other album as they
\* were, whatever other calls are under way.
C31_AddCountFrame ==
    [][\A p \in Callers :
        (/\ call[p].op \in {"AddLike", "AddDislike"}
         /\ call[p].pc # "done"
         /\ call'[p].pc = "done"
         /\ call'[p].result = "ok")
        => /\ \A b \in Albums \ {call[p].album} : GetByAlbumID(b)' = GetByAlbumID(b)
           /\ call[p].op = "AddLike"
              => GetByAlbumID(call[p].album)'.dislikeCount
                    = GetByAlbumID(call[p].album).dislikeCount
           /\ call[p].op = "AddDislike"
              => GetByAlbumID(call[p].album)'.likeCount
                    = GetByAlbumID(call[p].album).likeCount]_vars

\* C32: no acknowledged like is missing from the read model: for an album
\* no delete message is on the queue for, likeCount is at least the number
\* of its add_like messages a MessageProcessor has deleted from the queue
\* (which it does only after handleMessage returned nil).
C32_AcknowledgedLikesCounted ==
    \A a \in Albums :
        (\A m \in Msgs : ~(reviewQueue[m].type = "delete" /\ reviewQueue[m].album = a))
        => GetByAlbumID(a).likeCount
              >= Cardinality({m \in Msgs : /\ reviewQueue[m].state = "deleted"
                                           /\ reviewQueue[m].type = "add_like"
                                           /\ reviewQueue[m].album = a})

\* C33: a MessageProcessor whose stopChan has been closed makes no receive
\* call but the one it was about to make when Stop came: from its select,
\* from the handling of a batch and from the sleep after a failed receive
\* it never gets to a receive call again, and from the sleep it gets only
\* to the select, where it returns.
C33_NoReceiveAfterStop ==
    [][\A w \in Workers :
        stopChan[w]
        => /\ loopPc[w] # "receive" => loopPc'[w] # "receive"
           /\ loopPc[w] = "sleep" => loopPc'[w] \in {"sleep", "select", "killed"}
           /\ loopPc[w] = "select" => loopPc'[w] \in {"select", "exited", "killed"}
           /\ loopPc[w] = "exited" => loopPc'[w] = "exited"]_vars

\* the receive call a stopped processor still made has failed and the
\* processor is in its retry sleep
C33_Witness ==
    \E w \in Workers : stopChan[w] /\ loopPc[w] = "sleep"

\* C34: LikeAlbum and DislikeAlbum for an album id without row in the albums
\* table return an error and do nothing else: the call ends at GetAlbum, no
\* album_reviews row is written for it, no event is handed to the topic and
\* no message reaches the queue.
C34_MissingAlbumNoEffect ==
    \A r \in Requests :
        (/\ cmd[r] \in {"LikeAlbum", "DislikeAlbum"}
         /\ req[r].album \notin albumRows)
        => /\ req[r].pc \in {"get", "done"}
           /\ req[r].pc = "done" => req[r].result = "error"
           /\ \A row \in albumReviews : row.id # r
           /\ \A e \in events : e.req # r
           /\ queue[MsgOf[r]].state = "absent"

\* a DislikeAlbum for the album without row has returned its error
C34_Witness ==
    \E r \in Requests :
        /\ cmd[r] = "DislikeAlbum"
        /\ req[r].album \notin albumRows
        /\ req[r].pc = "done"
        /\ req[r].result = "error"
====
